---- MODULE Spec2Model ----
(***************************************************************************)
(* NChat: the UDP message exchange engine (UdpMessageHandler, src/lib.rs). *)
(* One owner thread calls the public API; every successful start_receiver  *)
(* spawns a receive thread that shares the AtomicBool `running` with the   *)
(* owner and owns the listening socket and the buffered log writer.        *)
(***************************************************************************)
EXTENDS Integers, Sequences, FiniteSets, TLC

(* ---------------------------------------------------------------- bounds *)
MaxCalls == 3        \* public API calls made by the owner in one behaviour
MaxSessions == 2     \* receiver sessions (successful binds) in one behaviour
MaxDatagrams == 2    \* datagrams the network delivers in one behaviour
MaxFaults == 1       \* failing writes to the log file in one behaviour
MaxRecvErrors == 1   \* non-timeout recv_from errors in one behaviour
MaxChildren == 3     \* tunnel child processes spawned in one behaviour

(* ------------------------------------------------------ program constants *)
BufSize == 2048      \* let mut buf = [0; 2048]

Ports == {9000, 9001}
Sessions == 1..MaxSessions
Sources == {"peer"}
OtherPorts == {9000} \* the ports other processes compete for

(* A payload is Pad ASCII bytes followed by the bytes of Tail, each byte   *)
(* given by its UTF-8 class: "A" an ASCII byte, "L" the lead byte of a     *)
(* two-byte character, "C" a continuation byte, "X" a byte that is valid   *)
(* nowhere (0xFF).                                                         *)
Pads == {0, BufSize - 1}
Tails == {<<"X">>, <<"L", "C">>, <<"A", "X">>}
Payloads == [pad : Pads, tail : Tails]

PLen(b) == b.pad + Len(b.tail)

Min(a, b) == IF a < b THEN a ELSE b

(* buf[..size] after recv_from copied the datagram into the 2048-byte buf: *)
(* the first Min(len, BufSize) bytes of the datagram.                      *)
Truncate(b, size) ==
  IF b.pad >= size
    THEN [pad |-> size, tail |-> <<>>]
    ELSE [pad |-> b.pad, tail |-> SubSeq(b.tail, 1, Min(Len(b.tail), size - b.pad))]

(* String::from_utf8 on the classes of the bytes. *)
RECURSIVE ValidUtf8(_)
ValidUtf8(s) ==
  IF s = <<>> THEN TRUE
  ELSE IF Head(s) = "A" THEN ValidUtf8(Tail(s))
  ELSE IF Head(s) = "L"
    THEN Len(s) >= 2 /\ s[2] = "C" /\ ValidUtf8(Tail(Tail(s)))
  ELSE FALSE

IsUtf8(b) == ValidUtf8(b.tail)

(* The message of a log entry: the text, or "<BINARY DATA: n bytes>". *)
Decode(bytes, size) ==
  IF IsUtf8(bytes)
    THEN [kind |-> "text", text |-> bytes, n |-> 0]
    ELSE [kind |-> "binary", text |-> [pad |-> 0, tail |-> <<>>], n |-> size]

(* format!("[{}] FROM {}: {}\n", timestamp, source, message). The         *)
(* timestamp is the wall clock at the read and is left out. The entry also *)
(* carries, for the properties only, the datagram it was made from: its    *)
(* arrival number id and the payload as it was sent. part tells which      *)
(* bytes of the line a piece holds: all of them as formatted.              *)
LogEntry(d, size) ==
  [id |-> d.id, sent |-> d.payload, source |-> d.source,
   message |-> Decode(Truncate(d.payload, size), size), part |-> "whole"]

(* A write(2) of the BufWriter's buffer may take only part of it before    *)
(* the next one fails, and the part taken may end inside a line: Cut(e) is *)
(* what then reached the file of the piece e, the first bytes of it, and   *)
(* Rest(e) what stays in the buffer, the last bytes of the line.           *)
Cut(e) == [e EXCEPT !.part = IF @ = "whole" THEN "head" ELSE "mid"]
Rest(e) == [e EXCEPT !.part = "tail"]

(* ----------------------------------------------------------------- state *)
VARIABLES
  windows,          \* cfg!(windows): the platform the program was built for
  pc,               \* where the owner thread is: idle, inside a call, dropped
  running,          \* self.running: Arc<AtomicBool>, shared with the threads
  receive_port,     \* self.receive_port: Option<u16>, {} is None
  receiver_thread,  \* self.receiver_thread: Option<JoinHandle>, {} is None
  status_sender,    \* self.status_sender: Option<Sender>, {} is None
  sender_socket,    \* self.sender_socket is open
  write_timeout,    \* the outbound socket's write timeout has been set
  handle,           \* stop_receiver's local `handle`, taken from the field
  nsess,            \* receiver sessions begun so far
  tpc,              \* tpc[t]: where the receive thread of session t is
  tsock,            \* tsock[t]: the port receiver_socket of t is bound to
  tport,            \* tport[t]: `port`, moved into the closure of session t
  tqueue,           \* tqueue[t]: datagrams queued by the OS on that socket
  twriter,          \* twriter[t]: file_writer is "none", "open" or "closed"
  tbuf,             \* tbuf[t]: entries held in the BufWriter's buffer
  chan,             \* chan[t]: messages sent on session t's status channel
  file,             \* the log file: the entries written to it, in order
  otherBound,       \* ports bound by other processes
  faults,           \* failed writes to the log file so far
  recvErrs,         \* non-timeout receive errors so far
  ncalls,           \* public API calls begun so far
  lastCall,         \* the last API call and what it returned
  ndgrams,          \* datagrams delivered so far
  arrived,          \* arrived[t]: ids delivered to t's socket, in order
  liveIds,          \* ids delivered while the running flag was true
  readOk,           \* readOk[t]: ids recv_from returned Ok for, in order
  appended,         \* appended[t]: ids whose entry write_all accepted
  flush_err,        \* flush_err[t]: writer.flush() of session t returned Err
  dpc,              \* dpc[t]: where the dispatcher's drain thread of t is
  shown,            \* shown[t]: messages of chan[t] the drain thread printed
  frp_manager,      \* self.frp_manager: Option<FrpManager>, {} is None
  children,         \* tunnel child processes this handler spawned, alive
  nchild,           \* tunnel child processes spawned so far
  lastFrp           \* the last frp call and what it returned

engine == <<running, receive_port, receiver_thread, status_sender,
            sender_socket, write_timeout, handle>>
threads == <<nsess, tpc, tsock, tport, tqueue, twriter, tbuf, chan>>
disk == <<file, faults>>
ghost == <<ndgrams, arrived, liveIds, readOk, appended, flush_err>>
drain == <<dpc, shown>>
tunnel == <<frp_manager, children, nchild, lastFrp>>
vars == <<windows, pc, engine, threads, disk, otherBound, recvErrs,
          ncalls, lastCall, ghost, drain, tunnel>>

(* A call as the caller sees it: the operation, its port argument, what it *)
(* returned ("pending" until it returns), the byte count of an Ok(n), and  *)
(* whether a receiver was active when it was entered. For send_message it  *)
(* also carries the target and the message length it was called with and   *)
(* the lengths of the datagrams send_to handed to the outbound socket.     *)
Call(op, port, result) ==
  [op |-> op, port |-> port, result |-> result, n |-> 0,
   active |-> receiver_thread # {}, target |-> "", len |-> 0, handed |-> {}]

(* An frp call as the caller sees it: the operation, what it returned, the *)
(* process handle the manager held when it was entered ({} is None), the   *)
(* children the call spawned, and is_frp_running() right after it.         *)
FrpCall(op, result, held, spawned, after) ==
  [op |-> op, result |-> result, held |-> held, spawned |-> spawned,
   running |-> after]

(* UdpMessageHandler::new succeeded: no receiver, flag false, file exists. *)
Init ==
  /\ windows \in BOOLEAN
  /\ pc = "idle"
  /\ running = FALSE
  /\ receive_port = {}
  /\ receiver_thread = {}
  /\ status_sender = {}
  /\ sender_socket = TRUE
  /\ write_timeout = FALSE
  /\ handle = {}
  /\ nsess = 0
  /\ tpc = [t \in Sessions |-> "none"]
  /\ tsock = [t \in Sessions |-> {}]
  /\ tport = [t \in Sessions |-> {}]
  /\ tqueue = [t \in Sessions |-> <<>>]
  /\ twriter = [t \in Sessions |-> "none"]
  /\ tbuf = [t \in Sessions |-> <<>>]
  /\ chan = [t \in Sessions |-> <<>>]
  /\ file = <<>>
  /\ otherBound = {}
  /\ faults = 0
  /\ recvErrs = 0
  /\ ncalls = 0
  /\ lastCall = [op |-> "new", port |-> {}, result |-> "Ok", n |-> 0,
                 active |-> FALSE, target |-> "", len |-> 0, handed |-> {}]
  /\ ndgrams = 0
  /\ arrived = [t \in Sessions |-> <<>>]
  /\ liveIds = {}
  /\ readOk = [t \in Sessions |-> <<>>]
  /\ appended = [t \in Sessions |-> <<>>]
  /\ flush_err = [t \in Sessions |-> FALSE]
  /\ dpc = [t \in Sessions |-> "none"]
  /\ shown = [t \in Sessions |-> 0]
  /\ frp_manager = {}
  /\ children = {}
  /\ nchild = 0
  /\ lastFrp = FrpCall("none", "Ok", {}, {}, FALSE)

(* ------------------------------------------------------------ owner thread *)
is_receiving == receiver_thread # {}

(* Ports some socket is bound to: bind on one of them fails. *)
BoundPorts == otherBound \cup UNION {tsock[t] : t \in Sessions}

(* set_read_timeout on the fresh socket returns Ok or Err. *)
ConfigOutcomes == {"ok", "fail"}

(* BindAndStart with the stores to running and receive_port made before   *)
(* the bind instead of after it.                                           *)
BindAndStart_FlagFirst(p) ==
  IF p \in BoundPorts
    THEN /\ lastCall' = Call("start", {p}, "AddrInUse")
         /\ running' = TRUE
         /\ receive_port' = {p}
         /\ UNCHANGED <<pc, receiver_thread, status_sender, sender_socket,
                        write_timeout, handle, threads>>
    ELSE \E cfg \in ConfigOutcomes :
           IF cfg = "fail"
             THEN /\ lastCall' = Call("start", {p}, "ConfigError")
                  /\ running' = TRUE
                  /\ receive_port' = {p}
                  /\ UNCHANGED <<pc, receiver_thread, status_sender,
                                 sender_socket, write_timeout, handle, threads>>
             ELSE /\ nsess < MaxSessions
                  /\ nsess' = nsess + 1
                  /\ tsock' = [tsock EXCEPT ![nsess + 1] = {p}]
                  /\ tport' = [tport EXCEPT ![nsess + 1] = {p}]
                  /\ running' = TRUE
                  /\ receive_port' = {p}
                  /\ status_sender' = {nsess + 1}
                  /\ pc' = "start_spawn"
                  /\ lastCall' = Call("start", {p}, "pending")
                  /\ UNCHANGED <<receiver_thread, sender_socket,
                                 write_timeout, handle, tpc, tqueue,
                                 twriter, tbuf, chan>>

(* BindAndStart without the store of true to running. *)
BindAndStart_NoFlag(p) ==
  IF p \in BoundPorts
    THEN /\ lastCall' = Call("start", {p}, "AddrInUse")
         /\ UNCHANGED <<pc, engine, threads>>
    ELSE \E cfg \in ConfigOutcomes :
           IF cfg = "fail"
             THEN /\ lastCall' = Call("start", {p}, "ConfigError")
                  /\ UNCHANGED <<pc, engine, threads>>
             ELSE /\ nsess < MaxSessions
                  /\ nsess' = nsess + 1
                  /\ tsock' = [tsock EXCEPT ![nsess + 1] = {p}]
                  /\ tport' = [tport EXCEPT ![nsess + 1] = {p}]
                  /\ receive_port' = {p}
                  /\ status_sender' = {nsess + 1}
                  /\ pc' = "start_spawn"
                  /\ lastCall' = Call("start", {p}, "pending")
                  /\ UNCHANGED <<running, receiver_thread, sender_socket,
                                 write_timeout, handle, tpc, tqueue,
                                 twriter, tbuf, chan>>

(* Lines 69-76 of start_receiver: bind, set_read_timeout (either error is *)
(* returned by `?`, the socket of a failed set_read_timeout being dropped),*)
(* then the stores to running, receive_port and status_sender.             *)
BindAndStart(p) ==
  IF p \in BoundPorts
    THEN /\ lastCall' = Call("start", {p}, "AddrInUse")
         /\ UNCHANGED <<pc, engine, threads>>
    ELSE \E cfg \in ConfigOutcomes :
           IF cfg = "fail"
             THEN /\ lastCall' = Call("start", {p}, "ConfigError")
                  /\ UNCHANGED <<pc, engine, threads>>
             ELSE /\ nsess < MaxSessions
                  /\ nsess' = nsess + 1
                  /\ tsock' = [tsock EXCEPT ![nsess + 1] = {p}]
                  /\ tport' = [tport EXCEPT ![nsess + 1] = {p}]
                  /\ running' = TRUE
                  /\ receive_port' = {p}
                  /\ status_sender' = {nsess + 1}
                  /\ pc' = "start_spawn"
                  /\ lastCall' = Call("start", {p}, "pending")
                  /\ UNCHANGED <<receiver_thread, sender_socket,
                                 write_timeout, handle, tpc, tqueue,
                                 twriter, tbuf, chan>>

(* start_receiver without the is_receiving check of lines 62-67. *)
StartReceiver_NoCheck(p) ==
  /\ pc = "idle"
  /\ ncalls < MaxCalls
  /\ ncalls' = ncalls + 1
  /\ BindAndStart(p)
  /\ UNCHANGED <<windows, disk, otherBound, recvErrs, ghost, drain, tunnel>>

(* start_receiver up to line 76: rejected while a receiver is active. *)
StartReceiver(p) ==
  /\ pc = "idle"
  /\ ncalls < MaxCalls
  /\ ncalls' = ncalls + 1
  /\ IF is_receiving
       THEN /\ lastCall' = Call("start", {p}, "AlreadyExists")
            /\ UNCHANGED <<pc, engine, threads>>
       ELSE BindAndStart(p)
  /\ UNCHANGED <<windows, disk, otherBound, recvErrs, ghost, drain, tunnel>>

(* thread::spawn, self.receiver_thread = Some(handle), Ok(()). *)
StartSpawn ==
  /\ pc = "start_spawn"
  /\ tpc' = [tpc EXCEPT ![nsess] = "open"]
  /\ receiver_thread' = {nsess}
  /\ pc' = "idle"
  /\ lastCall' = [lastCall EXCEPT !.result = "Ok"]
  /\ UNCHANGED <<windows, running, receive_port, status_sender, sender_socket,
                 write_timeout, handle, nsess, tsock, tport, tqueue, twriter,
                 tbuf, chan, disk, otherBound, recvErrs, ncalls, ghost, drain,
                 tunnel>>

(* process.lock().is_some() over an Option<FrpManager>: the handle held.   *)
Held(manager) == UNION {m.process : m \in manager}

(* child.kill() returns Ok or Err. *)
KillOutcomes == {"ok", "fail"}

(* FrpManager::stop on a manager, kill returning k: the handle is taken    *)
(* out; after Ok the child is waited for and is gone; after Err the handle *)
(* is dropped, which neither kills nor waits, and the child is as it was.  *)
AfterStop(manager, k) ==
  IF k = "ok" THEN children \ Held(manager) ELSE children

(* The frp_manager field released: impl Drop for FrpManager calls stop.    *)
DropManager ==
  IF Held(frp_manager) = {}
    THEN /\ frp_manager' = {}
         /\ UNCHANGED <<children, nchild, lastFrp>>
    ELSE \E k \in KillOutcomes :
           /\ frp_manager' = {}
           /\ children' = AfterStop(frp_manager, k)
           /\ UNCHANGED <<nchild, lastFrp>>

(* StopBegin without the store of false to running. *)
StopBegin_NoFlag(op) ==
  /\ pc = "idle"
  /\ ncalls' = ncalls + 1
  /\ IF is_receiving
       THEN /\ handle' = receiver_thread
            /\ receiver_thread' = {}
            /\ pc' = "stop_join"
            /\ lastCall' = Call(op, {}, "pending")
            /\ UNCHANGED <<running, receive_port, status_sender,
                           sender_socket, write_timeout>>
       ELSE /\ pc' = IF op = "drop" THEN "dropped" ELSE "idle"
            /\ sender_socket' = (op # "drop")
            /\ lastCall' = Call(op, {}, "Ok")
            /\ UNCHANGED <<running, receive_port, receiver_thread,
                           status_sender, write_timeout, handle>>
  /\ UNCHANGED <<windows, threads, disk, otherBound, recvErrs, ghost, drain,
                 tunnel>>

(* StopBegin answering "not running" when no receiver is active. *)
StopBegin_Strict(op) ==
  /\ pc = "idle"
  /\ ncalls' = ncalls + 1
  /\ IF is_receiving
       THEN /\ running' = FALSE
            /\ handle' = receiver_thread
            /\ receiver_thread' = {}
            /\ pc' = "stop_join"
            /\ lastCall' = Call(op, {}, "pending")
            /\ UNCHANGED <<receive_port, status_sender, sender_socket,
                           write_timeout>>
       ELSE /\ pc' = IF op = "drop" THEN "dropped" ELSE "idle"
            /\ sender_socket' = (op # "drop")
            /\ lastCall' = Call(op, {}, "NotRunning")
            /\ UNCHANGED <<running, receive_port, receiver_thread,
                           status_sender, write_timeout, handle>>
  /\ UNCHANGED <<windows, threads, disk, otherBound, recvErrs, ghost, drain,
                 tunnel>>

(* stop_receiver, entered by the public call (op "stop") or by Drop (op    *)
(* "drop"): nothing when no receiver is active, else the flag is stored    *)
(* false and the handle taken out of the field.                            *)
StopBegin(op) ==
  /\ pc = "idle"
  /\ ncalls' = ncalls + 1
  /\ IF is_receiving
       THEN /\ running' = FALSE
            /\ handle' = receiver_thread
            /\ receiver_thread' = {}
            /\ pc' = "stop_join"
            /\ lastCall' = Call(op, {}, "pending")
            /\ UNCHANGED <<receive_port, status_sender, sender_socket,
                           write_timeout, tunnel>>
       ELSE /\ pc' = IF op = "drop" THEN "dropped" ELSE "idle"
            /\ sender_socket' = (op # "drop")
            /\ lastCall' = Call(op, {}, "Ok")
            /\ IF op = "drop" THEN DropManager ELSE UNCHANGED tunnel
            /\ UNCHANGED <<running, receive_port, receiver_thread,
                           status_sender, write_timeout, handle>>
  /\ UNCHANGED <<windows, threads, disk, otherBound, recvErrs, ghost, drain>>

StopReceiver == ncalls < MaxCalls /\ StopBegin("stop")

(* A drop that releases the fields without calling stop_receiver. *)
Drop_NoStop ==
  /\ ncalls <= MaxCalls
  /\ pc = "idle"
  /\ ncalls' = ncalls + 1
  /\ pc' = "dropped"
  /\ sender_socket' = FALSE
  /\ lastCall' = Call("drop", {}, "Ok")
  /\ UNCHANGED <<windows, running, receive_port, receiver_thread,
                 status_sender, write_timeout, handle, threads, disk,
                 otherBound, recvErrs, ghost, drain, tunnel>>

(* impl Drop: self.stop_receiver(), then the fields are released, the frp  *)
(* manager among them.                                                     *)
Drop == ncalls <= MaxCalls /\ StopBegin("drop")

(* A join that does not wait for the thread. *)
JoinReturns_NoWait(t) == TRUE

(* handle.join() returns once the thread has ended. *)
JoinReturns(t) == tpc[t] = "done"

StopJoin ==
  /\ pc = "stop_join"
  /\ \A t \in handle : JoinReturns(t)
  /\ handle' = {}
  /\ pc' = "stop_clear"
  /\ UNCHANGED <<windows, running, receive_port, receiver_thread,
                 status_sender, sender_socket, write_timeout, threads, disk,
                 otherBound, recvErrs, ncalls, lastCall, ghost, drain,
                 tunnel>>

(* self.receive_port = None, and the call returns. *)
StopClear ==
  /\ pc = "stop_clear"
  /\ receive_port' = {}
  /\ pc' = IF lastCall.op = "drop" THEN "dropped" ELSE "idle"
  /\ sender_socket' = (lastCall.op # "drop")
  /\ lastCall' = [lastCall EXCEPT !.result = "Ok"]
  /\ IF lastCall.op = "drop" THEN DropManager ELSE UNCHANGED tunnel
  /\ UNCHANGED <<windows, running, receiver_thread, status_sender,
                 write_timeout, handle, threads, disk, otherBound, recvErrs,
                 ncalls, ghost, drain>>

(* send_message. A target parses as a SocketAddr only when it is an IP     *)
(* literal with a port; a host name with a port does not.                  *)
Targets == {"not-an-address", "localhost:9000", "127.0.0.1:9000"}
ParsesAsSocketAddr(target) == target = "127.0.0.1:9000"
MessageLens == {1, 5}

(* What send_to returns: Ok, or an error. A send that times out against    *)
(* the write timeout is reported as TimedOut on Windows; elsewhere the     *)
(* platform reports it as WouldBlock, or as TimedOut.                      *)
SendOutcomes ==
  {"Ok", "NetworkUnreachable"}
  \cup (IF windows THEN {"TimedOut"} ELSE {"WouldBlock", "TimedOut"})

SendCall(target, len, result) ==
  [Call("send", {}, result) EXCEPT !.target = target, !.len = len]

(* send_message answering Ok(len) whatever send_to returned. *)
SendMessage_IgnoreError(target, len) ==
  /\ pc = "idle"
  /\ ncalls < MaxCalls
  /\ ncalls' = ncalls + 1
  /\ IF ~ParsesAsSocketAddr(target)
       THEN /\ lastCall' = SendCall(target, len, "InvalidInput")
            /\ UNCHANGED write_timeout
       ELSE \E cfg \in ConfigOutcomes :
              IF cfg = "fail"
                THEN /\ lastCall' = SendCall(target, len, "ConfigError")
                     /\ UNCHANGED write_timeout
                ELSE /\ write_timeout' = TRUE
                     /\ \E o \in SendOutcomes :
                          lastCall' =
                            [SendCall(target, len, "Ok") EXCEPT
                               !.n = len,
                               !.handed = IF o = "Ok" THEN {len} ELSE {}]
  /\ UNCHANGED <<windows, pc, running, receive_port, receiver_thread,
                 status_sender, sender_socket, handle, threads, disk,
                 otherBound, recvErrs, ghost, drain, tunnel>>

(* send_message setting the write timeout before it parses the target. *)
SendMessage_TimeoutFirst(target, len) ==
  /\ pc = "idle"
  /\ ncalls < MaxCalls
  /\ ncalls' = ncalls + 1
  /\ \E cfg \in ConfigOutcomes :
       IF cfg = "fail"
         THEN /\ lastCall' = SendCall(target, len, "ConfigError")
              /\ UNCHANGED write_timeout
       ELSE IF ~ParsesAsSocketAddr(target)
         THEN /\ lastCall' = SendCall(target, len, "InvalidInput")
              /\ write_timeout' = TRUE
       ELSE /\ write_timeout' = TRUE
            /\ \E o \in SendOutcomes :
                 lastCall' =
                   IF o = "Ok"
                     THEN [SendCall(target, len, "Ok") EXCEPT
                             !.n = len, !.handed = {len}]
                   ELSE IF windows /\ o = "TimedOut"
                     THEN SendCall(target, len, "ConnectionRefused")
                   ELSE SendCall(target, len, o)
  /\ UNCHANGED <<windows, pc, running, receive_port, receiver_thread,
                 status_sender, sender_socket, handle, threads, disk,
                 otherBound, recvErrs, ghost, drain, tunnel>>

(* send_message taking a failed send for a dead network and stopping the   *)
(* receiver by its flag.                                                   *)
SendMessage_StopsOnError(target, len) ==
  /\ pc = "idle"
  /\ ncalls < MaxCalls
  /\ ncalls' = ncalls + 1
  /\ IF ~ParsesAsSocketAddr(target)
       THEN /\ lastCall' = SendCall(target, len, "InvalidInput")
            /\ UNCHANGED <<write_timeout, running>>
       ELSE \E cfg \in ConfigOutcomes :
              IF cfg = "fail"
                THEN /\ lastCall' = SendCall(target, len, "ConfigError")
                     /\ UNCHANGED <<write_timeout, running>>
                ELSE /\ write_timeout' = TRUE
                     /\ \E o \in SendOutcomes :
                          /\ running' = (running /\ o = "Ok")
                          /\ lastCall' =
                               IF o = "Ok"
                                 THEN [SendCall(target, len, "Ok") EXCEPT
                                         !.n = len, !.handed = {len}]
                               ELSE IF windows /\ o = "TimedOut"
                                 THEN SendCall(target, len, "ConnectionRefused")
                               ELSE SendCall(target, len, o)
  /\ UNCHANGED <<windows, pc, receive_port, receiver_thread,
                 status_sender, sender_socket, handle, threads, disk,
                 otherBound, recvErrs, ghost, drain, tunnel>>

(* Lines 185-215: the parse (InvalidInput on failure, before anything      *)
(* else), set_write_timeout (its error returned by `?`), send_to, whose    *)
(* Ok(size) is returned as it is, and the rewrite of a TimedOut error to   *)
(* ConnectionRefused when cfg!(windows).                                   *)
SendMessage(target, len) ==
  /\ pc = "idle"
  /\ ncalls < MaxCalls
  /\ ncalls' = ncalls + 1
  /\ IF ~ParsesAsSocketAddr(target)
       THEN /\ lastCall' = SendCall(target, len, "InvalidInput")
            /\ UNCHANGED write_timeout
       ELSE \E cfg \in ConfigOutcomes :
              IF cfg = "fail"
                THEN /\ lastCall' = SendCall(target, len, "ConfigError")
                     /\ UNCHANGED write_timeout
                ELSE /\ write_timeout' = TRUE
                     /\ \E o \in SendOutcomes :
                          lastCall' =
                            IF o = "Ok"
                              THEN [SendCall(target, len, "Ok") EXCEPT
                                      !.n = len, !.handed = {len}]
                            ELSE IF windows /\ o = "TimedOut"
                              THEN SendCall(target, len, "ConnectionRefused")
                            ELSE SendCall(target, len, o)
  /\ UNCHANGED <<windows, pc, running, receive_port, receiver_thread,
                 status_sender, sender_socket, handle, threads, disk,
                 otherBound, recvErrs, ghost, drain, tunnel>>

(* ---------------------------------------------------------- receive thread *)
(* OpenOptions::new().create(true).append(true).open succeeds or fails.    *)
OpenOutcomes == {"ok", "fail"}

(* The log file opened with truncate(true) in place of append(true). *)
ThreadOpen_Truncate(t) ==
  /\ tpc[t] = "open"
  /\ \E o \in OpenOutcomes :
       /\ twriter' = [twriter EXCEPT ![t] = IF o = "ok" THEN "open" ELSE "none"]
       /\ chan' = [chan EXCEPT ![t] =
                     IF o = "ok" THEN <<"started">>
                                 ELSE <<"open_failed", "started">>]
       /\ file' = IF o = "ok" THEN <<>> ELSE file
  /\ tpc' = [tpc EXCEPT ![t] = "check"]
  /\ UNCHANGED <<windows, pc, engine, nsess, tsock, tport, tqueue, tbuf,
                 faults, otherBound, recvErrs, ncalls, lastCall, ghost, drain,
                 tunnel>>

(* The thread ending when the log file cannot be opened. *)
ThreadOpen_ExitOnFail(t) ==
  /\ tpc[t] = "open"
  /\ \E o \in OpenOutcomes :
       /\ twriter' = [twriter EXCEPT ![t] = IF o = "ok" THEN "open" ELSE "none"]
       /\ chan' = [chan EXCEPT ![t] =
                     IF o = "ok" THEN <<"started">> ELSE <<"open_failed">>]
       /\ tpc' = [tpc EXCEPT ![t] = IF o = "ok" THEN "check" ELSE "exit"]
  /\ UNCHANGED <<windows, pc, engine, nsess, tsock, tport, tqueue, tbuf,
                 disk, otherBound, recvErrs, ncalls, lastCall, ghost, drain,
                 tunnel>>

(* Lines 84-101: the file is opened for append; a failure is reported and  *)
(* leaves no writer; then the "started" message is sent.                   *)
ThreadOpen(t) ==
  /\ tpc[t] = "open"
  /\ \E o \in OpenOutcomes :
       /\ twriter' = [twriter EXCEPT ![t] = IF o = "ok" THEN "open" ELSE "none"]
       /\ chan' = [chan EXCEPT ![t] =
                     IF o = "ok" THEN <<"started">>
                                 ELSE <<"open_failed", "started">>]
  /\ tpc' = [tpc EXCEPT ![t] = "check"]
  /\ UNCHANGED <<windows, pc, engine, nsess, tsock, tport, tqueue, tbuf,
                 disk, otherBound, recvErrs, ncalls, lastCall, ghost, drain,
                 tunnel>>

(* The loop without its test of the flag. *)
ThreadCheck_IgnoreFlag(t) ==
  /\ tpc[t] = "check"
  /\ tpc' = [tpc EXCEPT ![t] = "recv"]
  /\ UNCHANGED <<windows, pc, engine, nsess, tsock, tport, tqueue, twriter,
                 tbuf, chan, disk, otherBound, recvErrs, ncalls, lastCall,
                 ghost, drain, tunnel>>

(* The loop test reading the socket dry before it honours the flag. *)
ThreadCheck_DrainFirst(t) ==
  /\ tpc[t] = "check"
  /\ tpc' = [tpc EXCEPT ![t] =
               IF running \/ tqueue[t] # <<>> THEN "recv" ELSE "flush"]
  /\ UNCHANGED <<windows, pc, engine, nsess, tsock, tport, tqueue, twriter,
                 tbuf, chan, disk, otherBound, recvErrs, ncalls, lastCall,
                 ghost, drain, tunnel>>

(* while running.load(Ordering::SeqCst) *)
ThreadCheck(t) ==
  /\ tpc[t] = "check"
  /\ tpc' = [tpc EXCEPT ![t] = IF running THEN "recv" ELSE "flush"]
  /\ UNCHANGED <<windows, pc, engine, nsess, tsock, tport, tqueue, twriter,
                 tbuf, chan, disk, otherBound, recvErrs, ncalls, lastCall,
                 ghost, drain, tunnel>>

(* What the timed recv_from returns: the datagram at the head of the queue *)
(* (cut to the buffer; a datagram longer than the buffer is an error on    *)
(* Windows, where the excess is discarded with WSAEMSGSIZE), a timeout     *)
(* when nothing is queued, or another error.                               *)
RecvOutcomes(t) ==
  (IF tqueue[t] = <<>> THEN {"timeout"}
   ELSE IF windows /\ PLen(Head(tqueue[t]).payload) > BufSize THEN {"msgsize"}
   ELSE {"data"})
  \cup (IF recvErrs < MaxRecvErrors THEN {"error"} ELSE {})

(* BufWriter::write_all(entry) with buf buffered: the entry is buffered    *)
(* when it fits the spare capacity; when it does not, the buffer is first  *)
(* written to the file and the entry buffered, or that write fails after k *)
(* entries, or inside the one after them, and the entry is not taken; what *)
(* was not written stays buffered. Whether an entry fits depends on byte   *)
(* counts that are not tracked: both cases are allowed once the buffer     *)
(* holds something.                                                        *)
WriteOutcomes(buf, e) ==
  {[buf |-> Append(buf, e), out |-> <<>>, err |-> FALSE]}
  \cup (IF buf # <<>>
          THEN {[buf |-> <<e>>, out |-> buf, err |-> FALSE]}
          ELSE {})
  \cup (IF buf # <<>> /\ faults < MaxFaults
          THEN {[buf |-> SubSeq(buf, k + 1, Len(buf)),
                 out |-> SubSeq(buf, 1, k), err |-> TRUE] :
                   k \in 0..(Len(buf) - 1)}
               \cup
               {[buf |-> <<Rest(buf[k + 1])>> \o SubSeq(buf, k + 2, Len(buf)),
                 out |-> Append(SubSeq(buf, 1, k), Cut(buf[k + 1])),
                 err |-> TRUE] :
                   k \in 0..(Len(buf) - 1)}
          ELSE {})

(* LogDatagram with a datagram that is not UTF-8 skipped instead of being  *)
(* logged under the placeholder.                                           *)
LogDatagram_SkipBinary(t, d, size) ==
  IF twriter[t] = "open" /\ IsUtf8(Truncate(d.payload, size))
    THEN \E w \in WriteOutcomes(tbuf[t], LogEntry(d, size)) :
           /\ tbuf' = [tbuf EXCEPT ![t] = w.buf]
           /\ file' = file \o w.out
           /\ faults' = IF w.err THEN faults + 1 ELSE faults
           /\ appended' = [appended EXCEPT ![t] =
                             IF w.err THEN @ ELSE Append(@, d.id)]
           /\ chan' = [chan EXCEPT ![t] =
                         IF w.err THEN Append(@, "write_error") ELSE @]
    ELSE UNCHANGED <<tbuf, file, faults, appended, chan>>

(* Lines 106-122: the entry of a received datagram is handed to the       *)
(* writer, if there is one; a failed write_all is reported.                *)
LogDatagram(t, d, size) ==
  IF twriter[t] = "open"
    THEN \E w \in WriteOutcomes(tbuf[t], LogEntry(d, size)) :
           /\ tbuf' = [tbuf EXCEPT ![t] = w.buf]
           /\ file' = file \o w.out
           /\ faults' = IF w.err THEN faults + 1 ELSE faults
           /\ appended' = [appended EXCEPT ![t] =
                             IF w.err THEN @ ELSE Append(@, d.id)]
           /\ chan' = [chan EXCEPT ![t] =
                         IF w.err THEN Append(@, "write_error") ELSE @]
    ELSE UNCHANGED <<tbuf, file, faults, appended, chan>>

(* The loop body leaving the loop on a receive error that is no timeout. *)
ThreadRecv_BreakOnError(t) ==
  /\ tpc[t] = "recv"
  /\ \E o \in RecvOutcomes(t) :
       IF o = "data"
         THEN LET d == Head(tqueue[t])
              IN /\ tqueue' = [tqueue EXCEPT ![t] = Tail(@)]
                 /\ readOk' = [readOk EXCEPT ![t] = Append(@, d.id)]
                 /\ LogDatagram(t, d, Min(PLen(d.payload), BufSize))
                 /\ tpc' = [tpc EXCEPT ![t] = "check"]
                 /\ UNCHANGED recvErrs
       ELSE IF o = "timeout"
         THEN /\ tpc' = [tpc EXCEPT ![t] = "check"]
              /\ UNCHANGED <<tqueue, readOk, tbuf, file, faults, appended,
                             chan, recvErrs>>
       ELSE /\ chan' = [chan EXCEPT ![t] = Append(@, "recv_error")]
            /\ tqueue' = IF o = "msgsize"
                           THEN [tqueue EXCEPT ![t] = Tail(@)] ELSE tqueue
            /\ recvErrs' = IF o = "error" THEN recvErrs + 1 ELSE recvErrs
            /\ tpc' = [tpc EXCEPT ![t] = "flush"]
            /\ UNCHANGED <<readOk, tbuf, file, faults, appended>>
  /\ UNCHANGED <<windows, pc, engine, nsess, tsock, tport, twriter,
                 otherBound, ncalls, lastCall, ndgrams, arrived, liveIds,
                 flush_err, drain, tunnel>>

(* Lines 104-142: one pass of the loop body. *)
ThreadRecv(t) ==
  /\ tpc[t] = "recv"
  /\ tpc' = [tpc EXCEPT ![t] = "check"]
  /\ \E o \in RecvOutcomes(t) :
       IF o = "data"
         THEN LET d == Head(tqueue[t])
              IN /\ tqueue' = [tqueue EXCEPT ![t] = Tail(@)]
                 /\ readOk' = [readOk EXCEPT ![t] = Append(@, d.id)]
                 /\ LogDatagram(t, d, Min(PLen(d.payload), BufSize))
                 /\ UNCHANGED recvErrs
       ELSE IF o = "timeout"
         THEN UNCHANGED <<tqueue, readOk, tbuf, file, faults, appended, chan,
                          recvErrs>>
       ELSE /\ chan' = [chan EXCEPT ![t] = Append(@, "recv_error")]
            /\ tqueue' = IF o = "msgsize"
                           THEN [tqueue EXCEPT ![t] = Tail(@)] ELSE tqueue
            /\ recvErrs' = IF o = "error" THEN recvErrs + 1 ELSE recvErrs
            /\ UNCHANGED <<readOk, tbuf, file, faults, appended>>
  /\ UNCHANGED <<windows, pc, engine, nsess, tsock, tport, twriter,
                 otherBound, ncalls, lastCall, ndgrams, arrived, liveIds,
                 flush_err, drain, tunnel>>

(* writer.flush() and the drop of the writer at the end of the block: the  *)
(* buffer reaches the file, or a write fails after k entries or inside the *)
(* one after them; the result of flush is discarded (let _ =).             *)
FlushOutcomes(buf) ==
  {[out |-> buf, err |-> FALSE]}
  \cup (IF buf # <<>> /\ faults < MaxFaults
          THEN {[out |-> SubSeq(buf, 1, k), err |-> TRUE] :
                  k \in 0..(Len(buf) - 1)}
               \cup
               {[out |-> Append(SubSeq(buf, 1, k), Cut(buf[k + 1])),
                 err |-> TRUE] :
                  k \in 0..(Len(buf) - 1)}
          ELSE {})

(* The exit path with the writer let go without its buffer being written. *)
ThreadFlush_NoFlush(t) ==
  /\ tpc[t] = "flush"
  /\ tpc' = [tpc EXCEPT ![t] = "exit"]
  /\ IF twriter[t] = "open"
       THEN /\ tbuf' = [tbuf EXCEPT ![t] = <<>>]
            /\ twriter' = [twriter EXCEPT ![t] = "closed"]
            /\ UNCHANGED <<file, faults, flush_err>>
       ELSE UNCHANGED <<file, faults, flush_err, tbuf, twriter>>
  /\ UNCHANGED <<windows, pc, engine, nsess, tsock, tport, tqueue, chan,
                 otherBound, recvErrs, ncalls, lastCall, ndgrams, arrived,
                 liveIds, readOk, appended, drain, tunnel>>

(* Lines 145-148. *)
ThreadFlush(t) ==
  /\ tpc[t] = "flush"
  /\ tpc' = [tpc EXCEPT ![t] = "exit"]
  /\ IF twriter[t] = "open"
       THEN \E f \in FlushOutcomes(tbuf[t]) :
              /\ file' = file \o f.out
              /\ faults' = IF f.err THEN faults + 1 ELSE faults
              /\ flush_err' = [flush_err EXCEPT ![t] = f.err]
              /\ tbuf' = [tbuf EXCEPT ![t] = <<>>]
              /\ twriter' = [twriter EXCEPT ![t] = "closed"]
       ELSE UNCHANGED <<file, faults, flush_err, tbuf, twriter>>
  /\ UNCHANGED <<windows, pc, engine, nsess, tsock, tport, tqueue, chan,
                 otherBound, recvErrs, ncalls, lastCall, ndgrams, arrived,
                 liveIds, readOk, appended, drain, tunnel>>

(* The thread ending without its last message. *)
ThreadExit_Silent(t) ==
  /\ tpc[t] = "exit"
  /\ tsock' = [tsock EXCEPT ![t] = {}]
  /\ tqueue' = [tqueue EXCEPT ![t] = <<>>]
  /\ tpc' = [tpc EXCEPT ![t] = "done"]
  /\ UNCHANGED <<windows, pc, engine, nsess, tport, twriter, tbuf, chan,
                 disk, otherBound, recvErrs, ncalls, lastCall, ghost, drain,
                 tunnel>>

(* Lines 150-152: the "stopped" message, then the closure ends and what it *)
(* owns is released: receiver_socket with whatever is still queued on it.  *)
ThreadExit(t) ==
  /\ tpc[t] = "exit"
  /\ chan' = [chan EXCEPT ![t] = Append(@, "stopped")]
  /\ tsock' = [tsock EXCEPT ![t] = {}]
  /\ tqueue' = [tqueue EXCEPT ![t] = <<>>]
  /\ tpc' = [tpc EXCEPT ![t] = "done"]
  /\ UNCHANGED <<windows, pc, engine, nsess, tport, twriter, tbuf, disk,
                 otherBound, recvErrs, ncalls, lastCall, ghost, drain,
                 tunnel>>

(* ------------------------------------------------------------- environment *)
(* The network delivers a datagram to a bound listening socket. *)
Deliver(t, payload, source) ==
  /\ tsock[t] # {}
  /\ ndgrams < MaxDatagrams
  /\ ndgrams' = ndgrams + 1
  /\ tqueue' = [tqueue EXCEPT ![t] =
       Append(@, [id |-> ndgrams + 1, payload |-> payload, source |-> source])]
  /\ arrived' = [arrived EXCEPT ![t] = Append(@, ndgrams + 1)]
  /\ liveIds' = IF running THEN liveIds \cup {ndgrams + 1} ELSE liveIds
  /\ UNCHANGED <<windows, pc, engine, nsess, tpc, tsock, tport, twriter,
                 tbuf, chan, disk, otherBound, recvErrs, ncalls, lastCall,
                 readOk, appended, flush_err, drain, tunnel>>

(* Another process binds a free port, or releases one it holds. *)
OtherBind(p) ==
  /\ p \in OtherPorts
  /\ p \notin BoundPorts
  /\ otherBound' = otherBound \cup {p}
  /\ UNCHANGED <<windows, pc, engine, threads, disk, recvErrs, ncalls,
                 lastCall, ghost, drain, tunnel>>

OtherRelease(p) ==
  /\ p \in otherBound
  /\ otherBound' = otherBound \ {p}
  /\ UNCHANGED <<windows, pc, engine, threads, disk, recvErrs, ncalls,
                 lastCall, ghost, drain, tunnel>>

Next ==
  \/ \E p \in Ports : StartReceiver(p)
  \/ StartSpawn
  \/ StopReceiver
  \/ Drop
  \/ StopJoin
  \/ StopClear
  \/ \E target \in Targets, len \in MessageLens : SendMessage(target, len)
  \/ \E t \in Sessions : ThreadOpen(t)
  \/ \E t \in Sessions : ThreadCheck(t)
  \/ \E t \in Sessions : ThreadRecv(t)
  \/ \E t \in Sessions : ThreadFlush(t)
  \/ \E t \in Sessions : ThreadExit(t)
  \/ \E t \in Sessions, b \in Payloads, s \in Sources : Deliver(t, b, s)
  \/ \E p \in Ports : OtherBind(p)
  \/ \E p \in Ports : OtherRelease(p)

Spec == Init /\ [][Next]_vars

(* A step of the receive thread of session t. *)
ThreadStep(t) ==
  ThreadOpen(t) \/ ThreadCheck(t) \/ ThreadRecv(t) \/ ThreadFlush(t)
    \/ ThreadExit(t)

(* The steps that bear on a receiver's life: the calls that start and stop *)
(* it, its thread, and the datagrams that arrive. send_message and the     *)
(* ports of other processes are left out.                                  *)
ReceiverNext ==
  \/ \E p \in Ports : StartReceiver(p)
  \/ StartSpawn
  \/ StopReceiver
  \/ Drop
  \/ StopJoin
  \/ StopClear
  \/ \E t \in Sessions : ThreadOpen(t)
  \/ \E t \in Sessions : ThreadCheck(t)
  \/ \E t \in Sessions : ThreadRecv(t)
  \/ \E t \in Sessions : ThreadFlush(t)
  \/ \E t \in Sessions : ThreadExit(t)
  \/ \E t \in Sessions, b \in Payloads, s \in Sources : Deliver(t, b, s)

(* The scheduler lets every spawned thread run, every timed recv_from      *)
(* returns, and the owner goes on once the join it is blocked in returns.  *)
FairSpec ==
  /\ Init /\ [][ReceiverNext]_vars
  /\ \A t \in Sessions : WF_vars(ThreadStep(t))
  /\ WF_vars(StopJoin)
  /\ WF_vars(StopClear)

(* -------------------------------------------------------------- dispatcher *)
(* main's command loop driving the engine through InputHandler. The owner  *)
(* thread is the loop; handle_start adds, after a start_receiver that      *)
(* returned Ok, a thread that prints what arrives on the status channel.   *)

(* handle_start has start_receiver's Ok and has not yet spawned the drain  *)
(* thread.                                                                 *)
DrainPending ==
  /\ pc = "idle" /\ lastCall.op = "start" /\ lastCall.result = "Ok"
  /\ dpc[nsess] = "none"

(* handle_start: nothing but a message when a receiver is running, else    *)
(* start_receiver with a fresh channel.                                    *)
HandleStart(p) ==
  /\ ~DrainPending
  /\ ~is_receiving
  /\ StartReceiver(p)

(* handle_start, lines 391-396: thread::spawn of the drain thread, which   *)
(* owns status_rx.                                                         *)
DrainSpawn ==
  /\ DrainPending
  /\ dpc' = [dpc EXCEPT ![nsess] = "run"]
  /\ UNCHANGED <<windows, pc, engine, threads, disk, otherBound, recvErrs,
                 ncalls, lastCall, ghost, shown, tunnel>>

(* One pass of `while let Ok(msg) = status_rx.try_recv()`: a message that  *)
(* is waiting is printed; when none is waiting try_recv returns Err(Empty),*)
(* the loop ends and status_rx is dropped. The thread lives no longer than *)
(* the process, which ends when main returns.                              *)
DrainStep(t) ==
  /\ dpc[t] = "run"
  /\ pc # "dropped"
  /\ IF shown[t] < Len(chan[t])
       THEN /\ shown' = [shown EXCEPT ![t] = @ + 1]
            /\ UNCHANGED dpc
       ELSE /\ dpc' = [dpc EXCEPT ![t] = "done"]
            /\ UNCHANGED shown
  /\ UNCHANGED <<windows, pc, engine, threads, disk, otherBound, recvErrs,
                 ncalls, lastCall, ghost, tunnel>>

(* handle_stop: nothing but a message when no receiver is running. *)
HandleStop ==
  /\ ~DrainPending
  /\ is_receiving
  /\ StopReceiver

(* handle_send. *)
HandleSend(target, len) ==
  /\ ~DrainPending
  /\ SendMessage(target, len)

(* "quit": handle_command returns true, main returns and `handler` goes    *)
(* out of scope.                                                           *)
Quit ==
  /\ ~DrainPending
  /\ Drop

(* What the user types at the prompts, and what reaches the socket, in the *)
(* sessions of the dispatcher that are explored.                           *)
PromptPorts == {9000}
PromptTargets == {"127.0.0.1:9000"}
PromptLens == {5}
PeerPayloads == {[pad |-> 0, tail |-> <<"L", "C">>]}

DispatcherNext ==
  \/ \E p \in PromptPorts : HandleStart(p)
  \/ StartSpawn
  \/ DrainSpawn
  \/ HandleStop
  \/ StopJoin
  \/ StopClear
  \/ \E target \in PromptTargets, len \in PromptLens : HandleSend(target, len)
  \/ Quit
  \/ \E t \in Sessions : ThreadOpen(t)
  \/ \E t \in Sessions : ThreadCheck(t)
  \/ \E t \in Sessions : ThreadRecv(t)
  \/ \E t \in Sessions : ThreadFlush(t)
  \/ \E t \in Sessions : ThreadExit(t)
  \/ \E t \in Sessions : DrainStep(t)
  \/ \E t \in Sessions, b \in PeerPayloads, s \in Sources : Deliver(t, b, s)

DispatcherSpec == Init /\ [][DispatcherNext]_vars

(* ------------------------------------------------------------------ tunnel *)
(* The frp methods of the handler over FrpManager (frp.rs). Each runs to   *)
(* its return on the owner thread: kill and wait are synchronous.          *)

(* FrpManager::new: fs::create_dir_all returns Ok or Err. *)
NewOutcomes == {"ok", "fail"}

(* FrpManager::start past the is_running check: the child is spawned, or   *)
(* the configuration file, the frpc path, the log file or the spawn fails. *)
LaunchOutcomes == {"spawned", "failed"}

is_frp_running == Held(frp_manager) # {}

(* A manager as FrpManager::new returns it: process is None. *)
NewManager == [process |-> {}]

(* self.frp_manager = Some(manager): the old manager, if any, is dropped   *)
(* and its Drop calls stop.                                                *)
ReplaceManager(op) ==
  \E k \in KillOutcomes :
    /\ frp_manager' = {NewManager}
    /\ children' = AfterStop(frp_manager, k)
    /\ lastFrp' = FrpCall(op, "Ok", Held(frp_manager), {}, FALSE)

(* init_frp: one FrpManager::new, a second one with the receive port when  *)
(* a receiver is bound, then the field is assigned; `?` returns the first  *)
(* Err with the field as it was.                                           *)
InitFrp ==
  /\ pc = "idle"
  /\ \E n1 \in NewOutcomes, n2 \in NewOutcomes :
       IF n1 = "fail" \/ (receive_port # {} /\ n2 = "fail")
         THEN /\ lastFrp' = FrpCall("init_frp", "Err", Held(frp_manager), {},
                                    is_frp_running)
              /\ UNCHANGED <<frp_manager, children>>
         ELSE ReplaceManager("init_frp")
  /\ UNCHANGED <<windows, pc, engine, threads, disk, otherBound, recvErrs,
                 ncalls, lastCall, ghost, drain, nchild>>

(* configure_frp: one FrpManager::new, then the field is assigned. *)
ConfigureFrp ==
  /\ pc = "idle"
  /\ \E n \in NewOutcomes :
       IF n = "fail"
         THEN /\ lastFrp' = FrpCall("configure_frp", "Err", Held(frp_manager),
                                    {}, is_frp_running)
              /\ UNCHANGED <<frp_manager, children>>
         ELSE ReplaceManager("configure_frp")
  /\ UNCHANGED <<windows, pc, engine, threads, disk, otherBound, recvErrs,
                 ncalls, lastCall, ghost, drain, nchild>>

(* start_frp: Err without a manager; FrpManager::start returns Err when a  *)
(* handle is held or the launch fails, else stores the child's handle.     *)
StartFrp ==
  /\ pc = "idle"
  /\ IF frp_manager = {} \/ is_frp_running
       THEN /\ lastFrp' = FrpCall("start_frp", "Err", Held(frp_manager), {},
                                  is_frp_running)
            /\ UNCHANGED <<frp_manager, children, nchild>>
       ELSE \E o \in LaunchOutcomes :
              IF o = "failed"
                THEN /\ lastFrp' = FrpCall("start_frp", "Err", {}, {}, FALSE)
                     /\ UNCHANGED <<frp_manager, children, nchild>>
                ELSE /\ nchild < MaxChildren
                     /\ nchild' = nchild + 1
                     /\ children' = children \cup {nchild + 1}
                     /\ frp_manager' = {[process |-> {nchild + 1}]}
                     /\ lastFrp' = FrpCall("start_frp", "Ok", {},
                                           {nchild + 1}, TRUE)
  /\ UNCHANGED <<windows, pc, engine, threads, disk, otherBound, recvErrs,
                 ncalls, lastCall, ghost, drain>>

(* stop_frp: Err without a manager, else FrpManager::stop, which returns   *)
(* Ok whatever kill returned.                                              *)
StopFrp ==
  /\ pc = "idle"
  /\ IF frp_manager = {}
       THEN /\ lastFrp' = FrpCall("stop_frp", "Err", {}, {}, FALSE)
            /\ UNCHANGED <<frp_manager, children>>
       ELSE \E k \in KillOutcomes :
              /\ frp_manager' = {NewManager}
              /\ children' = AfterStop(frp_manager, k)
              /\ lastFrp' = FrpCall("stop_frp", "Ok", Held(frp_manager), {},
                                    FALSE)
  /\ UNCHANGED <<windows, pc, engine, threads, disk, otherBound, recvErrs,
                 ncalls, lastCall, ghost, drain, nchild>>

(* A tunnel child ends on its own; a handle held for it stays held. *)
ChildExit(c) ==
  /\ c \in children
  /\ children' = children \ {c}
  /\ UNCHANGED <<windows, pc, engine, threads, disk, otherBound, recvErrs,
                 ncalls, lastCall, ghost, drain, frp_manager, nchild,
                 lastFrp>>

(* The handler driven through its frp methods, with the receiver started,  *)
(* stopped and dropped around them and no traffic.                         *)
FrpNext ==
  \/ InitFrp
  \/ ConfigureFrp
  \/ StartFrp
  \/ StopFrp
  \/ \E c \in 1..MaxChildren : ChildExit(c)
  \/ \E p \in PromptPorts : StartReceiver(p)
  \/ StartSpawn
  \/ StopReceiver
  \/ Drop
  \/ StopJoin
  \/ StopClear
  \/ \E t \in Sessions : ThreadOpen(t)
  \/ \E t \in Sessions : ThreadCheck(t)
  \/ \E t \in Sessions : ThreadRecv(t)
  \/ \E t \in Sessions : ThreadFlush(t)
  \/ \E t \in Sessions : ThreadExit(t)

FrpSpec == Init /\ [][FrpNext]_vars

(* -------------------------------------------------------------- properties *)
Alive(t) == tpc[t] \notin {"none", "done"}

(* The state stop_receiver leaves: nothing of a receiver remains. *)
Stopped ==
  /\ ~running
  /\ receive_port = {}
  /\ receiver_thread = {}
  /\ \A t \in 1..nsess :
       tpc[t] = "done" /\ tsock[t] = {} /\ twriter[t] # "open" /\ tbuf[t] = <<>>

(* C1: start_receiver(p) entered while a receiver is active, for the same  *)
(* port or another, returns AlreadyExists, binds no socket, spawns no      *)
(* thread, and leaves the flag, the port, the handle and the running       *)
(* thread as they were.                                                    *)
C1_SecondStartRejected ==
  [][(pc = "idle" /\ receiver_thread # {} /\ ncalls' = ncalls + 1
        /\ lastCall'.op = "start")
     => /\ lastCall'.result = "AlreadyExists"
        /\ pc' = "idle"
        /\ UNCHANGED <<running, receive_port, receiver_thread, nsess, tpc,
                       tsock, tqueue, twriter, tbuf, file>>]_vars

C1_Witness ==
  /\ pc = "idle"
  /\ lastCall.op = "start" /\ lastCall.result = "AlreadyExists"
  /\ lastCall.port = receive_port
  /\ receiver_thread = {nsess} /\ running /\ tpc[nsess] = "recv"

(* C2: at most one receive thread of the engine is alive and at most one   *)
(* listening socket is bound at any time, and once a later session has     *)
(* begun the thread of every earlier one has ended and released its socket.*)
C2_AtMostOneReceiver ==
  /\ Cardinality({t \in Sessions : Alive(t)}) <= 1
  /\ Cardinality({t \in Sessions : tsock[t] # {}}) <= 1
  /\ \A t \in Sessions : t < nsess => (tpc[t] = "done" /\ tsock[t] = {})

C2_Witness ==
  /\ nsess = 2 /\ running /\ tpc[2] = "recv" /\ tpc[1] = "done"

(* C3: inside stop_receiver the flag is false before the join, the join    *)
(* has returned (the thread has ended) before the port is cleared, and     *)
(* when the call has returned the thread has ended, its socket is          *)
(* released, its writer is gone with nothing left in its buffer, the flag  *)
(* is false, receive_port is None and is_receiving is false.               *)
C3_StopReleasesReceiver ==
  /\ pc = "stop_join" => (~running /\ receiver_thread = {} /\ receive_port # {})
  /\ pc = "stop_clear" =>
       (~running /\ receive_port # {} /\ \A t \in 1..nsess : tpc[t] = "done")
  /\ (pc = "idle" /\ lastCall.op = "stop" /\ lastCall.active
        /\ lastCall.result = "Ok") => Stopped

C3_Witness ==
  /\ pc = "idle" /\ lastCall.op = "stop" /\ lastCall.active
  /\ lastCall.result = "Ok" /\ Len(file) > 0 /\ tpc[1] = "done"

(* C4: stop_receiver entered while no receiver is active returns without   *)
(* an error and changes nothing of the engine, its threads or the file.    *)
C4_StopIdempotent ==
  [][(pc = "idle" /\ receiver_thread = {} /\ ncalls' = ncalls + 1
        /\ lastCall'.op = "stop")
     => /\ lastCall'.result = "Ok"
        /\ pc' = "idle"
        /\ UNCHANGED <<engine, threads, file>>]_vars

(* A stop that found nothing to stop, after a session that was stopped. *)
C4_Witness ==
  /\ pc = "idle" /\ lastCall.op = "stop" /\ ~lastCall.active
  /\ lastCall.result = "Ok" /\ nsess = 1 /\ tpc[1] = "done"

(* C5: a start_receiver entered after stop_receiver has returned, on a     *)
(* port no other process holds, is not rejected as already running and its *)
(* bind does not find the port in use.                                     *)
C5_RestartAfterStop ==
  [][(pc = "idle" /\ receiver_thread = {} /\ nsess >= 1
        /\ ncalls' = ncalls + 1 /\ lastCall'.op = "start"
        /\ lastCall'.port \cap otherBound = {})
     => lastCall'.result \notin {"AlreadyExists", "AddrInUse"}]_vars

C5_Witness ==
  /\ pc = "idle" /\ lastCall.op = "start" /\ lastCall.result = "Ok"
  /\ nsess = 2 /\ tport[1] = tport[2] /\ tsock[2] = tport[2]

(* C6: a start_receiver whose bind or set_read_timeout fails returns the   *)
(* error and alters nothing: the flag stays false, receive_port None, no   *)
(* thread or socket is left, is_receiving stays false.                     *)
C6_FailedStartAltersNothing ==
  [][(ncalls' = ncalls + 1 /\ lastCall'.op = "start"
        /\ lastCall'.result \in {"AddrInUse", "ConfigError"})
     => /\ pc' = "idle"
        /\ ~running' /\ receive_port' = {} /\ receiver_thread' = {}
        /\ UNCHANGED <<engine, threads>>]_vars

C6_Witness ==
  /\ pc = "idle" /\ lastCall.op = "start" /\ lastCall.result = "AddrInUse"
  /\ lastCall.port \subseteq otherBound
  /\ ~running /\ receive_port = {} /\ receiver_thread = {}

(* C7: the flag is true and the port recorded before the thread is         *)
(* spawned, and once start_receiver(p) has returned Ok is_receiving is     *)
(* true, the flag true and receive_port Some(p), whether or not the thread *)
(* has run yet.                                                            *)
C7_StartedStateVisible ==
  /\ pc = "start_spawn" =>
       (running /\ receive_port = lastCall.port /\ tpc[nsess] = "none")
  /\ (pc = "idle" /\ lastCall.op = "start" /\ lastCall.result = "Ok") =>
       (receiver_thread # {} /\ running /\ receive_port = lastCall.port)

(* start_receiver has returned Ok and the thread has not taken a step. *)
C7_Witness ==
  /\ pc = "idle" /\ lastCall.op = "start" /\ lastCall.result = "Ok"
  /\ receiver_thread = {nsess} /\ tpc[nsess] = "open"

Range(q) == {q[i] : i \in 1..Len(q)}
Ids(q) == [i \in 1..Len(q) |-> q[i].id]

(* a is b with some of its elements left out. *)
RECURSIVE IsSubseq(_, _)
IsSubseq(a, b) ==
  IF a = <<>> THEN TRUE
  ELSE IF b = <<>> THEN FALSE
  ELSE IF Head(a) = Head(b) THEN IsSubseq(Tail(a), Tail(b))
  ELSE IsSubseq(a, Tail(b))

(* The datagrams of session t that have a line in the file, in file order *)
(* (a line is there when its last bytes are), and those that have one in   *)
(* the file or in the writer's buffer.                                     *)
FileIds(t) ==
  LET OfT(e) == e.id \in Range(arrived[t]) /\ e.part \in {"whole", "tail"}
  IN Ids(SelectSeq(file, OfT))
LoggedIds(t) == FileIds(t) \o Ids(tbuf[t])

NoWriteError(t) == "write_error" \notin Range(chan[t])
NoRecvError(t) == "recv_error" \notin Range(chan[t])

(* The datagrams delivered to t's socket while the flag was true. *)
ArrivedLive(t) ==
  LET Live(i) == i \in liveIds IN SelectSeq(arrived[t], Live)

(* C8, as claimed, in the sessions most favourable to it (the log file     *)
(* opened, no write or flush failed, no receive error): once the thread    *)
(* has ended, the datagrams delivered to its socket while the flag was     *)
(* true have one line each in the file, in the order they arrived.         *)
C8_EveryDeliveredDatagramLogged ==
  \A t \in Sessions :
    (tpc[t] = "done" /\ twriter[t] = "closed" /\ ~flush_err[t]
       /\ NoWriteError(t) /\ NoRecvError(t))
    => FileIds(t) = ArrivedLive(t)

(* C8, amended: the datagrams with a line are datagrams recv_from returned,*)
(* each with one line, in the order read; with a writer and no failed      *)
(* write they are all of them; recv_from returns datagrams in arrival      *)
(* order, and what is still queued has not been read or logged.            *)
C8_ReadDatagramsLoggedOnceInOrder ==
  \A t \in Sessions :
    /\ IsSubseq(LoggedIds(t), readOk[t])
    /\ IsSubseq(readOk[t], arrived[t])
    /\ (twriter[t] # "none" /\ ~flush_err[t] /\ NoWriteError(t))
         => LoggedIds(t) = readOk[t]
    /\ \A i \in 1..Len(tqueue[t]) :
         tqueue[t][i].id \notin Range(readOk[t]) \cup Range(LoggedIds(t))

(* One datagram read and logged, one left on the socket at the stop. *)
C8_Witness ==
  /\ tpc[1] = "done" /\ ArrivedLive(1) = <<1, 2>>
  /\ readOk[1] = <<1>> /\ FileIds(1) = <<1>>

C10_BinaryPlaceholderHasLength ==
  \A t \in Sessions :
    \A e \in Range(file) \cup Range(tbuf[t]) :
      ~IsUtf8(e.sent) =>
        (e.message.kind = "binary" /\ e.message.n = PLen(e.sent))

(* C11: send_message with a target that does not parse as a socket address *)
(* returns InvalidInput at once: the write timeout is not set, nothing is  *)
(* handed to the outbound socket, and the engine, its threads and the file *)
(* are as they were.                                                       *)
C11_InvalidTargetRejected ==
  [][(ncalls' = ncalls + 1 /\ lastCall'.op = "send"
        /\ ~ParsesAsSocketAddr(lastCall'.target))
     => /\ lastCall'.result = "InvalidInput"
        /\ lastCall'.handed = {} /\ lastCall'.n = 0
        /\ pc' = "idle"
        /\ UNCHANGED <<engine, threads, file>>]_vars

(* The rejected send found the socket's write timeout never set, with a    *)
(* receiver running beside it.                                             *)
C11_Witness ==
  /\ lastCall.op = "send" /\ lastCall.result = "InvalidInput"
  /\ lastCall.target = "localhost:9000"
  /\ ~write_timeout /\ sender_socket /\ receiver_thread # {}

(* C12: a send_message whose target parses returns Ok(n) only when send_to *)
(* took the datagram, and then n is the length of the message; every other *)
(* return is an error, and then nothing was handed to the socket.          *)
C12_SendReturnsLengthOrError ==
  (pc = "idle" /\ lastCall.op = "send") =>
    IF lastCall.result = "Ok"
      THEN /\ ParsesAsSocketAddr(lastCall.target)
           /\ lastCall.handed = {lastCall.len}
           /\ lastCall.n = lastCall.len
      ELSE /\ lastCall.handed = {}
           /\ lastCall.result \in {"InvalidInput", "ConfigError",
                                   "ConnectionRefused", "TimedOut",
                                   "WouldBlock", "NetworkUnreachable"}

C12_Witness ==
  /\ lastCall.op = "send" /\ lastCall.result = "Ok"
  /\ lastCall.len = 5 /\ lastCall.n = 5 /\ lastCall.handed = {5}

(* C13, as claimed: no send_message returns a raw timeout error; a send    *)
(* that timed out is answered with ConnectionRefused.                      *)
C13_TimeoutSurfacedAsUnreachable ==
  lastCall.op = "send" => lastCall.result \notin {"TimedOut", "WouldBlock"}

(* C14: a drop goes through stop_receiver before the outbound socket is    *)
(* released: while the drop is stopping the receiver the flag is false and *)
(* the outbound socket still open, the join has returned before the port   *)
(* is cleared, and once the outbound socket is released the instance is    *)
(* dropped, the flag is false, and every receive thread of it has ended    *)
(* with its socket released and its writer flushed and gone.               *)
C14_DropStopsReceiverFirst ==
  /\ (lastCall.op = "drop" /\ pc \in {"stop_join", "stop_clear"}) =>
       (sender_socket /\ ~running /\ receiver_thread = {})
  /\ (lastCall.op = "drop" /\ pc = "stop_clear") =>
       \A t \in 1..nsess : tpc[t] = "done" /\ tbuf[t] = <<>>
  /\ ~sender_socket =>
       (pc = "dropped" /\ lastCall.op = "drop" /\ lastCall.result = "Ok"
          /\ ~running /\ receiver_thread = {} /\ handle = {}
          /\ \A t \in Sessions : ~Alive(t) /\ tsock[t] = {}
                                  /\ twriter[t] # "open" /\ tbuf[t] = <<>>)
  /\ pc = "dropped" => ~sender_socket

(* An instance dropped with a receiver active that had logged a datagram. *)
C14_Witness ==
  /\ pc = "dropped" /\ lastCall.active /\ ~sender_socket
  /\ tpc[1] = "done" /\ FileIds(1) # <<>>

(* C15: the loop reads the socket only after a test of the flag that found *)
(* it true and returns to the test after every read, a test that finds the *)
(* flag false leaves the loop for good, the flag does not become true      *)
(* again while a thread is alive, and the owner waits in the join, taking  *)
(* no step of its own, until the thread has ended: so after the store of   *)
(* false the thread completes at most the one read it had already been     *)
(* admitted to, uninterrupted, and exits at its next test.                 *)
C15_StopHonouredAtNextCheck ==
  [][\A t \in Sessions :
       /\ (tpc[t] = "check" /\ tpc'[t] # "check") =>
            tpc'[t] = (IF running THEN "recv" ELSE "flush")
       /\ (tpc[t] = "recv" /\ tpc'[t] # "recv") => tpc'[t] = "check"
       /\ (tpc'[t] = "recv" /\ tpc[t] # "recv") => (tpc[t] = "check" /\ running)
       /\ tpc[t] \in {"flush", "exit", "done"} => tpc'[t] \notin {"check", "recv"}
       /\ (Alive(t) /\ ~running) => ~running'
       /\ (pc = "stop_join" /\ t \in handle /\ tpc[t] # "done") =>
            (pc' = "stop_join" /\ handle' = handle)
    ]_vars

(* The stop has stored false while the thread was already admitted to a    *)
(* read, with a datagram waiting for it.                                   *)
C15_Witness ==
  /\ pc = "stop_join" /\ ~running /\ handle = {1}
  /\ tpc[1] = "recv" /\ tqueue[1] # <<>>

(* C17: the loop is left only from a test that found the flag false; a     *)
(* read that timed out sends nothing on the status channel and one that    *)
(* failed otherwise sends exactly one receive-error message and logs       *)
(* nothing, and after either the thread is back at the test of the flag.   *)
C17_ReadErrorsDoNotEndLoop ==
  [][\A t \in Sessions :
       /\ (tpc'[t] = "flush" /\ tpc[t] # "flush") =>
            (tpc[t] = "check" /\ ~running)
       /\ (tpc[t] = "recv" /\ tpc'[t] # "recv") =>
            LET failed == \/ recvErrs' # recvErrs
                          \/ (tqueue'[t] # tqueue[t] /\ readOk'[t] = readOk[t])
                timedOut == ~failed /\ readOk'[t] = readOk[t]
            IN /\ tpc'[t] = "check"
               /\ failed => /\ chan'[t] = Append(chan[t], "recv_error")
                            /\ file' = file /\ tbuf' = tbuf
               /\ timedOut => /\ chan'[t] = chan[t]
                              /\ tqueue'[t] = tqueue[t]
                              /\ file' = file /\ tbuf' = tbuf
    ]_vars

(* A receive error was reported and the loop is reading again, the flag    *)
(* still true.                                                             *)
C17_Witness ==
  /\ running /\ receiver_thread = {1} /\ tpc[1] = "recv"
  /\ "recv_error" \in Range(chan[1])

(* C16: under fair scheduling of the receive thread, every stop_receiver   *)
(* and every drop that has stored false and is waiting in the join         *)
(* returns, whatever the reads return and whatever still arrives.          *)
C16_StopTerminates ==
  (pc \in {"stop_join", "stop_clear"}) ~> (pc \in {"idle", "dropped"})

(* A stop returned after a read of the session had failed. *)
C16_Witness ==
  /\ pc = "idle" /\ lastCall.op = "stop" /\ lastCall.active
  /\ lastCall.result = "Ok" /\ "recv_error" \in Range(chan[1])
  /\ readOk[1] # <<>>

OpenFailed(t) == "open_failed" \in Range(chan[t])

(* C18: in a session whose log file could not be opened the thread is in   *)
(* its loop for as long as the flag is true and the owner holds its        *)
(* handle, is_receiving being true all that time; it has no writer, so     *)
(* nothing of the session is buffered, appended or in the file whatever it *)
(* reads; and a stop that has returned has found the thread ended and its  *)
(* socket released as after any other session.                             *)
C18_LoopRunsWithoutLog ==
  \A t \in Sessions :
    OpenFailed(t) =>
      /\ twriter[t] = "none" /\ tbuf[t] = <<>>
      /\ appended[t] = <<>> /\ FileIds(t) = <<>>
      /\ "started" \in Range(chan[t])
      /\ (running /\ receiver_thread = {t}) => tpc[t] \in {"check", "recv"}
      /\ (Alive(t) /\ pc \in {"idle", "start_spawn"}) => receiver_thread = {t}
      /\ (pc \in {"idle", "dropped"} /\ receiver_thread = {}) =>
           (tpc[t] = "done" /\ tsock[t] = {})

(* The session without a log file read a datagram, logged nothing, and its *)
(* stop has returned.                                                      *)
C18_Witness ==
  /\ OpenFailed(1) /\ readOk[1] # <<>> /\ file = <<>>
  /\ pc = "idle" /\ lastCall.op = "stop" /\ lastCall.active
  /\ lastCall.result = "Ok" /\ tpc[1] = "done"

(* C19, as claimed, for the command dispatcher: once the receive thread of *)
(* a session and the drain thread that handle_start spawned for it have    *)
(* both ended, every message the receive thread sent has been printed.     *)
C19_EveryStatusMessageDisplayed ==
  \A t \in Sessions :
    (tpc[t] = "done" /\ dpc[t] = "done") => shown[t] = Len(chan[t])

(* The write-error messages session t sent, and those of sessions 1..n. *)
WriterReports(t) ==
  LET IsReport(m) == m = "write_error" IN Len(SelectSeq(chan[t], IsReport))

RECURSIVE SumReports(_)
SumReports(n) == IF n = 0 THEN 0 ELSE WriterReports(n) + SumReports(n - 1)

(* C20, as claimed: every failed write of a buffered writer, in write_all  *)
(* or in the flush on exit, has its message on the status channel.         *)
C20_EveryWriterFailureReported ==
  SumReports(MaxSessions) = faults

(* C21, as claimed: the line of a datagram whose payload is valid UTF-8    *)
(* carries that payload as text, whole, and a line carries the binary      *)
(* placeholder only when the datagram's payload is not valid UTF-8.        *)
C21_Utf8PayloadLoggedWhole ==
  \A t \in Sessions :
    \A e \in Range(file) \cup Range(tbuf[t]) :
      /\ IsUtf8(e.sent) =>
           (e.message.kind = "text" /\ e.message.text = e.sent)
      /\ e.message.kind = "binary" => ~IsUtf8(e.sent)

(* C22: a send_message, whatever it returns and whatever the receive       *)
(* thread is doing, leaves the flag, the port, the handle, the threads     *)
(* with their sockets, queues and writers, the file and the record of what *)
(* was received as they were; and a step of a receive thread leaves the    *)
(* outbound socket, its write timeout and the owner's call as they were.   *)
(* So a send and a thread step commute.                                    *)
C22_SendIndependentOfReceiver ==
  [][/\ (ncalls' = ncalls + 1 /\ lastCall'.op = "send") =>
          /\ pc' = pc
          /\ UNCHANGED <<running, receive_port, receiver_thread,
                         status_sender, handle, threads, disk, recvErrs, ghost>>
     /\ (\E t \in Sessions : tpc[t] # "none" /\ tpc'[t] # tpc[t]) =>
          UNCHANGED <<sender_socket, write_timeout, pc, ncalls, lastCall>>
    ]_vars

(* A send returned Ok while the receive thread was in a read with an entry *)
(* in its writer's buffer.                                                 *)
C22_Witness ==
  /\ lastCall.op = "send" /\ lastCall.result = "Ok" /\ lastCall.active
  /\ running /\ tpc[1] = "recv" /\ tbuf[1] # <<>>

(* C24: whenever the owner is in no call, the handle is present iff        *)
(* receive_port is Some iff the flag is true iff a receive thread of the   *)
(* instance is alive, and then the port is the one that thread's socket is *)
(* bound to.                                                               *)
C24_ReceiverViewsAgree ==
  pc = "idle" =>
    /\ is_receiving <=> receive_port # {}
    /\ is_receiving <=> running
    /\ is_receiving <=> (\E t \in Sessions : Alive(t))
    /\ is_receiving => (receiver_thread = {nsess} /\ Alive(nsess)
                          /\ receive_port = tsock[nsess])

(* All four views false after a start that failed, itself after a session  *)
(* that was started and stopped.                                           *)
C24_Witness ==
  /\ pc = "idle" /\ lastCall.op = "start"
  /\ lastCall.result \in {"AddrInUse", "ConfigError"}
  /\ nsess = 1 /\ tpc[1] = "done"
  /\ ~is_receiving /\ receive_port = {} /\ ~running

(* The messages of one session in the order the thread sends them: an      *)
(* open-failure message at most, first; the start message; error messages; *)
(* and, only as the last one, the stop message.                            *)
StatusOrdered(c) ==
  LET k == IF c # <<>> /\ c[1] = "open_failed" THEN 2 ELSE 1
  IN c # <<>> =>
       /\ Len(c) >= k /\ c[k] = "started"
       /\ \A i \in (k + 1)..Len(c) :
            \/ c[i] \in {"write_error", "recv_error"}
            \/ (i = Len(c) /\ c[i] = "stopped")

(* C25: the status messages of every session are in that order; nothing is *)
(* sent before the thread runs and the start message is there before the   *)
(* first test of the flag and so before the first read; the stop message   *)
(* is there exactly when the thread has ended, after the flush closed the  *)
(* writer and with the flag false until a later session begins; and a stop *)
(* that has returned finds it sent.                                        *)
C25_StatusMessagesOrdered ==
  \A t \in Sessions :
    /\ StatusOrdered(chan[t])
    /\ tpc[t] \in {"none", "open"} <=> chan[t] = <<>>
    /\ readOk[t] # <<>> => "started" \in Range(chan[t])
    /\ tpc[t] = "done" <=> "stopped" \in Range(chan[t])
    /\ tpc[t] = "done" =>
         (twriter[t] # "open" /\ tbuf[t] = <<>> /\ (t = nsess => ~running))
    /\ (pc \in {"idle", "dropped"} /\ lastCall.op \in {"stop", "drop"}
          /\ lastCall.active /\ t <= nsess)
         => chan[t][Len(chan[t])] = "stopped"

(* A session that could not open its file, met a receive error, and was    *)
(* stopped: four messages.                                                 *)
C25_Witness ==
  /\ chan[1] = <<"open_failed", "started", "recv_error", "stopped">>
  /\ pc = "idle" /\ lastCall.op = "stop" /\ lastCall.result = "Ok"

(* f is g with something appended. *)
Extends(g, f) == Len(g) >= Len(f) /\ SubSeq(g, 1, Len(f)) = f

(* The pieces a step appended to the file. *)
Added == SubSeq(file', Len(file) + 1, Len(file'))

(* The step is one of the receive thread of session t, holding a writer,   *)
(* in its loop body or in its exit flush, and not one of the owner.        *)
WriterStep(t) ==
  /\ twriter[t] = "open"
  /\ tpc[t] \in {"recv", "flush"} /\ tpc'[t] # tpc[t]
  /\ UNCHANGED <<pc, ncalls, lastCall>>

C26_AtMostOneTunnelChild ==
  /\ Cardinality(children) <= 1
  /\ (lastFrp.op = "start_frp" /\ lastFrp.held # {})
       => (lastFrp.result = "Err" /\ lastFrp.spawned = {})
  /\ (lastFrp.op \in {"stop_frp", "init_frp", "configure_frp"}
        /\ lastFrp.result = "Ok")
       => (~lastFrp.running /\ lastFrp.held \cap children = {})

====
